---- MODULE Spec2Model ----
(***************************************************************************)
(* Model of server.js: the POST /api/generate relay handler (one process   *)
(* per inbound request, interleaved at its awaits) and the script of the   *)
(* page served at GET /.                                                   *)
(*                                                                         *)
(* A JavaScript string is a sequence of tokens; a token is a TLA+ string   *)
(* standing for one character (prompts) or one literal chunk (messages).   *)
(* Template literals and + are sequence concatenation. The danda ending a  *)
(* Bangla sentence is written as a full stop.                              *)
(***************************************************************************)
EXTENDS Integers, Sequences, FiniteSets, TLC

\* ------------------------------------------------------------------ bounds

\* longest prompt, in characters
MaxLen == 2
\* requests the handler receives in a run of Spec
MaxRequests == 1
\* requests in flight together in a run of ConcSpec
NumConcurrent == 3
\* generate operations the page may have started and not finished (ClientSpec)
MaxOps == 2

\* ------------------------------------------------------- JavaScript values

Str(s) == [t |-> "string", s |-> s, n |-> 0, b |-> FALSE]
Num(n) == [t |-> "number", s |-> <<>>, n |-> n, b |-> FALSE]
Bool(b) == [t |-> "boolean", s |-> <<>>, n |-> 0, b |-> b]
JsUndefined == [t |-> "undefined", s |-> <<>>, n |-> 0, b |-> FALSE]
JsNull == [t |-> "null", s |-> <<>>, n |-> 0, b |-> FALSE]
JsObject == [t |-> "object", s |-> <<>>, n |-> 0, b |-> FALSE]

\* ToBoolean: undefined, null, false, 0 and "" are falsy
Truthy(v) ==
  CASE v.t = "undefined" -> FALSE
    [] v.t = "null" -> FALSE
    [] v.t = "boolean" -> v.b
    [] v.t = "number" -> v.n # 0
    [] v.t = "string" -> Len(v.s) > 0
    [] OTHER -> TRUE

TypeOf(v) == IF v.t = "null" THEN "object" ELSE v.t

\* ------------------------------------------------------------ characters

WhiteSpace == {" "}
BanglaChars == {"\\u0995"}
Alphabet == WhiteSpace \cup {"a"} \cup BanglaChars

RECURSIVE StringsOfLen(_)
StringsOfLen(n) ==
  IF n = 0 THEN {<<>>}
  ELSE {Append(s, c) : s \in StringsOfLen(n - 1), c \in Alphabet}

Strings == UNION {StringsOfLen(n) : n \in 0..MaxLen}

\* String.prototype.trim: drop white space from both ends
RECURSIVE TrimStart(_)
TrimStart(s) ==
  IF s # <<>> /\ Head(s) \in WhiteSpace THEN TrimStart(Tail(s)) ELSE s

RECURSIVE TrimEnd(_)
TrimEnd(s) ==
  IF s # <<>> /\ s[Len(s)] \in WhiteSpace
  THEN TrimEnd(SubSeq(s, 1, Len(s) - 1))
  ELSE s

Trim(s) == TrimEnd(TrimStart(s))

isBanglaText(txt) == \E i \in 1..Len(txt) : txt[i] \in BanglaChars

\* --------------------------------------------------------- configuration

OPENAI_IMAGE_MODEL == "gpt-image-1"
IMAGE_SIZE == "1024x1024"

\* ------------------------------------------------------- inbound requests

\* What a caller can put under "prompt" in a JSON body (undefined: no such key)
PromptValues ==
  {JsUndefined, JsNull, Num(0), Num(7), Bool(FALSE), Bool(TRUE), JsObject}
    \cup {Str(s) : s \in Strings}

\* A request body as express.json meets it: no JSON body at all, a JSON object,
\* bytes that are not JSON, or more bytes than the limit
Bodies ==
  {[kind |-> "object", prompt |-> v] : v \in PromptValues}
    \cup {[kind |-> k, prompt |-> JsUndefined] : k \in {"absent", "malformed", "tooLarge"}}

\* The bodies of the concurrent scenario: valid prompts only
ValidBodies ==
  {[kind |-> "object", prompt |-> Str(s)] : s \in {<<"a">>, <<" ", "\\u0995">>}}

\* express.json({ limit: "2mb" }): 0 when the body passes to the route, else the
\* status of the error it hands to next()
ExpressJsonError(b) ==
  CASE b.kind = "malformed" -> 400
    [] b.kind = "tooLarge" -> 413
    [] OTHER -> 0

\* const { prompt } = req.body || {}
PromptOf(b) == IF b.kind = "object" THEN b.prompt ELSE JsUndefined

\* The validation without its third test: a blank string passes
IsInvalidPromptNoTrim(prompt) ==
  \/ ~Truthy(prompt)
  \/ TypeOf(prompt) # "string"

\* !prompt || typeof prompt !== "string" || !prompt.trim()
IsInvalidPrompt(prompt) ==
  \/ ~Truthy(prompt)
  \/ TypeOf(prompt) # "string"
  \/ ~Truthy(Str(Trim(prompt.s)))

\* An identifier drawn once for the process, not once per request
nanoidOnce(k) == "id" \o ToString(1)

\* nanoid(): the k-th identifier drawn in this process (fresh, never empty)
nanoid(k) == "id" \o ToString(k)

\* The tagged prompt built from the raw prompt, not the trimmed one
PromptWithVariationUntrimmed(prompt, tag) ==
  prompt.s \o <<"\n", "\n", "[variation:", tag, "]">>

\* `${prompt.trim()}\n\n[variation:${variationTag}]`
PromptWithVariation(prompt, tag) ==
  Trim(prompt.s) \o <<"\n", "\n", "[variation:", tag, "]">>

\* The JSON body of the outbound POST
FetchBody(promptWithVariation) ==
  [model |-> OPENAI_IMAGE_MODEL, prompt |-> promptWithVariation,
   size |-> IMAGE_SIZE, n |-> 1, response_format |-> "b64_json"]

\* ---------------------------------------------------------- HTTP responses

NoMessage == <<>>

\* What res holds before the handler has answered
NotSent ==
  [count |-> 0, status |-> 0, type |-> "none", ok |-> FALSE, code |-> "",
   message_en |-> NoMessage, message_bn |-> NoMessage, lang |-> "",
   fileName |-> NoMessage, b64 |-> JsUndefined]

\* res.status(s).json({ ok: false, error: { code, message_en, message_bn, lang } })
ErrorJson(res, s, code, en, bn, lang) ==
  [count |-> res.count + 1, status |-> s, type |-> "json", ok |-> FALSE,
   code |-> code, message_en |-> en, message_bn |-> bn, lang |-> lang,
   fileName |-> NoMessage, b64 |-> JsUndefined]

\* Express's final handler: the error's status with an HTML page, no envelope
DefaultErrorPage(res, s) ==
  [count |-> res.count + 1, status |-> s, type |-> "html", ok |-> FALSE,
   code |-> "", message_en |-> NoMessage, message_bn |-> NoMessage, lang |-> "",
   fileName |-> NoMessage, b64 |-> JsUndefined]

BadRequest(res) ==
  ErrorJson(res, 400, "BAD_REQUEST",
            <<"Please provide a valid script (prompt).">>,
            <<"দয়া করে একটি বৈধ স্ক্রিপ্ট দিন.">>, "")

OpenAiError(res, reason, langBN) ==
  ErrorJson(res, 500, "OPENAI_ERROR",
            <<"Image generation failed. Reason: ">> \o reason,
            <<"ইমেজ জেনারেশন ব্যর্থ হয়েছে. কারণ: ">> \o reason,
            IF langBN THEN "bn" ELSE "en")

\* The missing image reported under the catch-all status
NoImageAs500(res) ==
  ErrorJson(res, 500, "NO_IMAGE",
            <<"No image returned. Try again.">>,
            <<"কোনো ইমেজ ফেরত দেয়নি. আবার চেষ্টা করুন.">>, "")

NoImage(res) ==
  ErrorJson(res, 502, "NO_IMAGE",
            <<"No image returned. Try again.">>,
            <<"কোনো ইমেজ ফেরত দেয়নি. আবার চেষ্টা করুন.">>, "")

ServerError(res, errMessage) ==
  ErrorJson(res, 500, "SERVER_ERROR",
            <<"Server error: ">> \o errMessage,
            <<"সার্ভারে সমস্যা হয়েছে: ">> \o errMessage, "")

\* The file name built with a tag of its own
FileNameFreshTag(now, tag) == <<"ai-photo-", now, "-", "id" \o ToString(0), ".png">>

\* `ai-photo-${Date.now()}-${variationTag}.png`
FileName(now, tag) == <<"ai-photo-", now, "-", tag, ".png">>

\* res.json({ ok: true, fileName, b64 })
Success(res, fileName, b64) ==
  [count |-> res.count + 1, status |-> 200, type |-> "json", ok |-> TRUE,
   code |-> "", message_en |-> NoMessage, message_bn |-> NoMessage, lang |-> "",
   fileName |-> fileName, b64 |-> b64]

\* ------------------------------------------------------ the image service

\* Date.now(), as the digits the template literal prints
Clock == {"1700000000000", "1700000000001"}

\* The Response a resolved fetch yields: ok is status in 200..299
UpstreamStatuses ==
  {[ok |-> TRUE, status |-> "200", statusText |-> "OK"],
   [ok |-> FALSE, status |-> "500", statusText |-> "Internal Server Error"],
   [ok |-> FALSE, status |-> "429", statusText |-> "Too Many Requests"]}

SuccessStatuses == {s \in UpstreamStatuses : s.ok}

NoResponse == [ok |-> FALSE, status |-> "", statusText |-> ""]

\* What response.json() yields: parses = FALSE when it throws; else the parsed
\* object, with error.message and the b64_json of each element of data
Json(hasError, message, hasData, data) ==
  [parses |-> TRUE, hasError |-> hasError, message |-> message,
   hasData |-> hasData, data |-> data]

Unparseable ==
  [parses |-> FALSE, hasError |-> FALSE, message |-> JsUndefined,
   hasData |-> FALSE, data |-> <<>>]

NoPayload == Json(FALSE, JsUndefined, FALSE, <<>>)

\* Bodies the service may send with a non-success status
ErrorBodies ==
  {Unparseable,
   NoPayload,
   Json(TRUE, JsUndefined, FALSE, <<>>),
   Json(TRUE, Str(<<>>), FALSE, <<>>),
   Json(TRUE, Str(<<"quota exceeded">>), FALSE, <<>>)}

\* The image the service generates for its k-th call
Image(k) == Str(<<"Zm9v", ToString(k)>>)

\* Bodies the service may send with a success status to its k-th call
OkBodies(k) ==
  {Unparseable,
   NoPayload,
   Json(FALSE, JsUndefined, TRUE, <<>>),
   Json(FALSE, JsUndefined, TRUE, <<JsUndefined>>),
   Json(FALSE, JsUndefined, TRUE, <<Str(<<>>)>>),
   Json(FALSE, JsUndefined, TRUE, <<Image(k)>>)}

ImageBodies(k) == {Json(FALSE, JsUndefined, TRUE, <<Image(k)>>)}

\* errJson?.error?.message
ErrorMessageOf(errJson) ==
  IF errJson.hasError THEN errJson.message ELSE JsUndefined

\* The reason that never looks at the error body
ReasonStatusLineOnly(response, errJson) ==
  <<response.status, " ", response.statusText>>

\* let reason = `${response.status} ${response.statusText}`; try { ... } catch {}
Reason(response, errJson) ==
  IF errJson.parses /\ Truthy(ErrorMessageOf(errJson))
  THEN ErrorMessageOf(errJson).s
  ELSE <<response.status, " ", response.statusText>>

\* data?.data?.[0]?.b64_json
B64Of(data) ==
  IF data.hasData /\ Len(data.data) > 0 THEN data.data[1] ELSE JsUndefined

\* err.message of what fetch rejects with, and of what response.json() throws
FetchFailed == <<"fetch failed">>
JsonSyntaxError == <<"Unexpected token < in JSON at position 0">>


\* ------------------------------------------------------------------- state

VARIABLES
  reqBody,       \* reqBody[r]: the body of the r-th inbound POST /api/generate
  pc,            \* pc[r]: where request r's handler stands
  langBN,        \* langBN[r]: the handler's const langBN
  variationTag,  \* variationTag[r]: the handler's const variationTag
  response,      \* response[r]: the handler's const response
  payload,       \* payload[r]: what await response.json() gave request r
  res,           \* res[r]: what has been sent to the caller of request r
  calls,         \* the outbound calls made to the image service, in order
  nanoidCount,   \* identifiers nanoid has drawn
  btnStartDisabled,   \* page: btnStart.disabled
  btnEntireDisabled,  \* page: btnEntire.disabled
  spinnerOn,          \* page: spinner has class "on"
  promptValue,        \* page: promptInput.value
  promptFocused,      \* page: promptInput has the focus
  welcome,            \* page: welcome.textContent
  errorBox,           \* page: errorBox, its textContent and style.display
  imageWrap,          \* page: the children of imageWrap
  ops                 \* page: the generate click handlers suspended at an await

serverVars ==
  <<reqBody, pc, langBN, variationTag, response, payload, res, calls, nanoidCount>>

clientVars ==
  <<btnStartDisabled, btnEntireDisabled, spinnerOn, promptValue, promptFocused,
    welcome, errorBox, imageWrap, ops>>

vars == <<serverVars, clientVars>>

Requests == 1..Len(reqBody)

\* The calls made on behalf of request r
CallsOf(r) == {k \in 1..Len(calls) : calls[k].req = r}

ServerInit ==
  /\ reqBody = <<>>
  /\ pc = <<>>
  /\ langBN = <<>>
  /\ variationTag = <<>>
  /\ response = <<>>
  /\ payload = <<>>
  /\ res = <<>>
  /\ calls = <<>>
  /\ nanoidCount = 0

\* ----------------------------------------------------------------- handler

\* A POST /api/generate arrives and passes through express.json: a body it
\* cannot take goes to next(err) and Express answers; any other reaches the route
ExpressJson(limit, bodies) ==
  /\ Len(reqBody) < limit
  /\ \E b \in bodies :
       /\ reqBody' = Append(reqBody, b)
       /\ IF ExpressJsonError(b) # 0
          THEN /\ pc' = Append(pc, "done")
               /\ res' = Append(res, DefaultErrorPage(NotSent, ExpressJsonError(b)))
          ELSE /\ pc' = Append(pc, "handler")
               /\ res' = Append(res, NotSent)
  /\ langBN' = Append(langBN, FALSE)
  /\ variationTag' = Append(variationTag, "")
  /\ response' = Append(response, NoResponse)
  /\ payload' = Append(payload, Unparseable)
  /\ UNCHANGED <<calls, nanoidCount, clientVars>>

\* The route handler up to its first await: validation, the variation tag and
\* the outbound fetch
HandlerStart(r) ==
  /\ pc[r] = "handler"
  /\ LET prompt == PromptOf(reqBody[r]) IN
       IF IsInvalidPrompt(prompt)
       THEN /\ res' = [res EXCEPT ![r] = BadRequest(res[r])]
            /\ pc' = [pc EXCEPT ![r] = "done"]
            /\ UNCHANGED <<langBN, variationTag, calls, nanoidCount>>
       ELSE LET tag == nanoid(nanoidCount + 1) IN
            /\ langBN' = [langBN EXCEPT ![r] = isBanglaText(prompt.s)]
            /\ nanoidCount' = nanoidCount + 1
            /\ variationTag' = [variationTag EXCEPT ![r] = tag]
            /\ calls' = Append(calls,
                 [req |-> r, method |-> "POST",
                  body |-> FetchBody(PromptWithVariation(prompt, tag))])
            /\ pc' = [pc EXCEPT ![r] = "awaitFetch"]
            /\ UNCHANGED res
  /\ UNCHANGED <<reqBody, response, payload, clientVars>>

\* await fetch(...) rejects: control passes to the catch block
FetchRejects(r) ==
  /\ pc[r] = "awaitFetch"
  /\ res' = [res EXCEPT ![r] = ServerError(res[r], FetchFailed)]
  /\ pc' = [pc EXCEPT ![r] = "done"]
  /\ UNCHANGED <<reqBody, langBN, variationTag, response, payload, calls, nanoidCount, clientVars>>

\* await fetch(...) resolves with the service's status line; the handler goes
\* on to read the body
FetchResolves(r, statuses) ==
  /\ pc[r] = "awaitFetch"
  /\ \E s \in statuses :
       /\ response' = [response EXCEPT ![r] = s]
       /\ pc' = [pc EXCEPT ![r] = IF s.ok THEN "awaitJson" ELSE "awaitErrJson"]
  /\ UNCHANGED <<reqBody, langBN, variationTag, payload, res, calls, nanoidCount, clientVars>>

\* if (!response.ok): await response.json() settles inside try/catch {}
ErrJsonSettles(r) ==
  /\ pc[r] = "awaitErrJson"
  /\ \E errJson \in ErrorBodies :
       /\ payload' = [payload EXCEPT ![r] = errJson]
       /\ res' = [res EXCEPT ![r] =
            OpenAiError(res[r], Reason(response[r], errJson), langBN[r])]
  /\ pc' = [pc EXCEPT ![r] = "done"]
  /\ UNCHANGED <<reqBody, langBN, variationTag, response, calls, nanoidCount, clientVars>>

\* const data = await response.json() settles: a throw goes to the catch
\* block, a body without b64_json is NO_IMAGE, else the image goes back;
\* replies[k] are the bodies the service may send to its k-th call
JsonSettles(r, replies) ==
  /\ pc[r] = "awaitJson"
  /\ \E k \in CallsOf(r) : \E data \in replies[k] : \E now \in Clock :
       /\ payload' = [payload EXCEPT ![r] = data]
       /\ res' = [res EXCEPT ![r] =
            IF ~data.parses THEN ServerError(res[r], JsonSyntaxError)
            ELSE IF ~Truthy(B64Of(data)) THEN NoImage(res[r])
            ELSE Success(res[r], FileName(now, variationTag[r]), B64Of(data))]
  /\ pc' = [pc EXCEPT ![r] = "done"]
  /\ UNCHANGED <<reqBody, langBN, variationTag, response, calls, nanoidCount, clientVars>>

\* ---------------------------------------------------------------- the page

\* What the user may have in the prompt field
ClientPrompts == {<<>>, <<" ">>, <<"a">>, <<" ", "\\u0995">>}

WelcomeText ==
  <<"Welcome! Please enter your script and click ENTIRE to generate a photo.">>

\* function showError(msg): the text, and display block
showError(msg) == [text |-> msg, display |-> "block"]

\* function clearError(): display none, the text stays
clearError(box) == [text |-> box.text, display |-> "none"]

\* function clearImage()
clearImage == <<>>

\* setBusy that leaves the generate button alone
setBusyStartOnly(b) == [btnStart |-> b, btnEntire |-> FALSE, spinner |-> b]

\* function setBusy(b): both buttons and the spinner
setBusy(b) == [btnStart |-> b, btnEntire |-> b, spinner |-> b]

\* setBusy(false) after the try statement instead of in finally: the early
\* return skips it
AfterTryOnly(completion) ==
  IF completion = "return" THEN setBusy(TRUE) ELSE setBusy(FALSE)

\* The finally block of the generate handler; it runs however the try block
\* ended ("normal", "return" or "throw")
Finally(completion) == setBusy(FALSE)

\* What a settled fetch('/api/generate') can carry: the handler's answers, the
\* page Express sends for an error of its own, and an envelope with no messages
ClientReplies ==
  {Success(NotSent, FileName("1700000000000", nanoid(1)), Image(1)),
   BadRequest(NotSent),
   ErrorJson(NotSent, 500, "", NoMessage, NoMessage, ""),
   DefaultErrorPage(NotSent, 400)}

\* json?.error?.message_bn || '...' and json?.error?.message_en || '...'
EnvelopeMessage(prompt, json) ==
  IF isBanglaText(prompt)
  THEN (IF Len(json.message_bn) > 0 THEN json.message_bn ELSE <<"ত্রুটি ঘটেছে.">>)
  ELSE (IF Len(json.message_en) > 0 THEN json.message_en ELSE <<"Error occurred.">>)

\* The message of the catch block
CaughtMessage(prompt, errMessage) ==
  IF isBanglaText(prompt)
  THEN <<"ইমেজ জেনারেশনে ত্রুটি: ">> \o errMessage
  ELSE <<"Error generating image: ">> \o errMessage

\* The img and the download link appended on success
Rendered(json) ==
  <<[tag |-> "img", src |-> <<"data:image/png;base64,">> \o json.b64.s,
     download |-> NoMessage],
    [tag |-> "a", src |-> <<"data:image/png;base64,">> \o json.b64.s,
     download |-> json.fileName]>>

\* ops without its i-th handler
Without(s, i) == SubSeq(s, 1, i - 1) \o SubSeq(s, i + 1, Len(s))

ClientInit ==
  /\ btnStartDisabled = FALSE
  /\ btnEntireDisabled = FALSE
  /\ spinnerOn = FALSE
  /\ promptValue = <<>>
  /\ promptFocused = FALSE
  /\ welcome = NoMessage
  /\ errorBox = [text |-> NoMessage, display |-> "none"]
  /\ imageWrap = <<>>
  /\ ops = <<>>

\* The user edits the prompt field
TypePrompt ==
  /\ \E s \in ClientPrompts : promptValue' = s
  /\ promptFocused' = TRUE
  /\ UNCHANGED <<btnStartDisabled, btnEntireDisabled, spinnerOn, welcome,
                 errorBox, imageWrap, ops, serverVars>>

\* btnStart click; a disabled button dispatches no click
ClickStart ==
  /\ ~btnStartDisabled
  /\ errorBox' = clearError(errorBox)
  /\ welcome' = WelcomeText
  /\ promptFocused' = TRUE
  /\ UNCHANGED <<btnStartDisabled, btnEntireDisabled, spinnerOn, promptValue,
                 imageWrap, ops, serverVars>>

\* btnEntire click, up to the await of fetch
ClickEntire ==
  /\ ~btnEntireDisabled
  /\ Len(ops) < MaxOps
  /\ promptFocused' = FALSE
  /\ LET prompt == Trim(promptValue) IN
       IF ~Truthy(Str(prompt))
       THEN /\ errorBox' = showError(<<"Please write a script first.">>)
            /\ UNCHANGED <<btnStartDisabled, btnEntireDisabled, spinnerOn,
                           imageWrap, ops>>
       ELSE /\ errorBox' = clearError(errorBox)
            /\ imageWrap' = clearImage
            /\ btnStartDisabled' = setBusy(TRUE).btnStart
            /\ btnEntireDisabled' = setBusy(TRUE).btnEntire
            /\ spinnerOn' = setBusy(TRUE).spinner
            /\ ops' = Append(ops,
                 [prompt |-> prompt, pc |-> "awaitFetch",
                  body |-> [kind |-> "object", prompt |-> Str(prompt)]])
  /\ UNCHANGED <<promptValue, welcome, serverVars>>

\* await fetch rejects: catch, then finally
ClientFetchRejects(i) ==
  /\ ops[i].pc = "awaitFetch"
  /\ errorBox' = showError(CaughtMessage(ops[i].prompt, <<"Failed to fetch">>))
  /\ btnStartDisabled' = Finally("throw").btnStart
  /\ btnEntireDisabled' = Finally("throw").btnEntire
  /\ spinnerOn' = Finally("throw").spinner
  /\ ops' = Without(ops, i)
  /\ UNCHANGED <<promptValue, promptFocused, welcome, imageWrap, serverVars>>

\* await fetch resolves: the handler goes on to await resp.json()
ClientFetchResolves(i) ==
  /\ ops[i].pc = "awaitFetch"
  /\ ops' = [ops EXCEPT ![i].pc = "awaitJson"]
  /\ UNCHANGED <<btnStartDisabled, btnEntireDisabled, spinnerOn, promptValue,
                 promptFocused, welcome, errorBox, imageWrap, serverVars>>

\* await resp.json() settles: a throw goes to catch, a non-ok envelope shows its
\* message and returns, an ok one is rendered; then finally
ClientJsonSettles(i) ==
  /\ ops[i].pc = "awaitJson"
  /\ \E json \in ClientReplies :
       LET completion == IF json.type # "json" THEN "throw"
                         ELSE IF ~json.ok THEN "return" ELSE "normal" IN
       /\ errorBox' =
            CASE completion = "throw" ->
                   showError(CaughtMessage(ops[i].prompt, JsonSyntaxError))
              [] completion = "return" ->
                   showError(EnvelopeMessage(ops[i].prompt, json))
              [] OTHER -> errorBox
       /\ imageWrap' =
            IF completion = "normal" THEN imageWrap \o Rendered(json) ELSE imageWrap
       /\ btnStartDisabled' = Finally(completion).btnStart
       /\ btnEntireDisabled' = Finally(completion).btnEntire
       /\ spinnerOn' = Finally(completion).spinner
  /\ ops' = Without(ops, i)
  /\ UNCHANGED <<promptValue, promptFocused, welcome, serverVars>>

\* -------------------------------------------------------- specifications

Init == ServerInit /\ ClientInit

\* One handler, every body, every outcome of the image service
Receive == ExpressJson(MaxRequests, Bodies)
Start == \E r \in Requests : HandlerStart(r)
Rejected == \E r \in Requests : FetchRejects(r)
Resolved == \E r \in Requests : FetchResolves(r, UpstreamStatuses)
ErrorRead == \E r \in Requests : ErrJsonSettles(r)
BodyRead ==
  \E r \in Requests : JsonSettles(r, [k \in 1..Len(calls) |-> OkBodies(k)])

Next ==
  \/ Receive
  \/ Start
  \/ Rejected
  \/ Resolved
  \/ ErrorRead
  \/ BodyRead

Spec == Init /\ [][Next]_vars

\* N valid requests in flight together, each call answered with its own image
ConcReceive == ExpressJson(NumConcurrent, ValidBodies)
ConcResolved == \E r \in Requests : FetchResolves(r, SuccessStatuses)
ConcBodyRead ==
  \E r \in Requests : JsonSettles(r, [k \in 1..Len(calls) |-> ImageBodies(k)])

ConcNext ==
  \/ ConcReceive
  \/ Start
  \/ ConcResolved
  \/ ConcBodyRead

ConcSpec == Init /\ [][ConcNext]_vars


\* The page alone: the user and the network act on it
FetchFails == \E i \in 1..Len(ops) : ClientFetchRejects(i)
FetchAnswers == \E i \in 1..Len(ops) : ClientFetchResolves(i)
JsonRead == \E i \in 1..Len(ops) : ClientJsonSettles(i)

ClientNext ==
  \/ TypePrompt
  \/ ClickStart
  \/ ClickEntire
  \/ FetchFails
  \/ FetchAnswers
  \/ JsonRead

ClientSpec == Init /\ [][ClientNext]_vars

\* A pending fetch or body read settles in the end, and the event loop then
\* resumes the handler awaiting it
Settles == FetchFails \/ FetchAnswers \/ JsonRead

ClientLiveSpec == ClientSpec /\ WF_vars(Settles)


\* ------------------------------------------------------------------ claims

Done(r) == pc[r] = "done"

\* Request r's body reached the route handler
Routed(r) == reqBody[r].kind \in {"absent", "object"}

\* The prompt of request r is absent, not a string, or all white space
Unusable(r) ==
  LET prompt == PromptOf(reqBody[r]) IN
    \/ prompt.t # "string"
    \/ \A i \in 1..Len(prompt.s) : prompt.s[i] \in WhiteSpace

ValidPrompt(r) == Routed(r) /\ ~Unusable(r)

\* await fetch rejected for request r: it made its call and got no Response
TransportFailed(r) == Done(r) /\ CallsOf(r) # {} /\ response[r] = NoResponse

\* The service answered request r with a non-success status
NonSuccess(r) == Done(r) /\ response[r] # NoResponse /\ ~response[r].ok

\* The service answered request r with a success status and a body that parses
ParsedSuccess(r) == Done(r) /\ response[r].ok /\ payload[r].parses

\* The tag at the end of a prompt sent to the service
TagSent(k) ==
  LET p == calls[k].body.prompt IN p[Len(p) - 1]

\* C1: a routed request whose prompt is absent, not a string or blank after
\* trimming never goes past validation, and is answered 400 with ok:false and
\* error.code BAD_REQUEST, nothing else.
C1_BadRequest ==
  \A r \in Requests :
    (Routed(r) /\ Unusable(r)) =>
      /\ pc[r] \in {"handler", "done"}
      /\ CallsOf(r) = {}
      /\ Done(r) =>
           /\ res[r].count = 1
           /\ res[r].status = 400
           /\ res[r].type = "json"
           /\ ~res[r].ok
           /\ res[r].code = "BAD_REQUEST"

C1_Witness ==
  \E r \in Requests :
    /\ reqBody[r] = [kind |-> "object", prompt |-> Str(<<" ", " ">>)]
    /\ Done(r)
    /\ res[r].code = "BAD_REQUEST"

\* C2: for a valid prompt, a fetch that rejects and a fetch that resolves with
\* a non-success status are both answered 500 with error.code OPENAI_ERROR.
C2_UpstreamFailureIsOpenAiError ==
  \A r \in Requests :
    (ValidPrompt(r) /\ (TransportFailed(r) \/ NonSuccess(r))) =>
      /\ res[r].status = 500
      /\ res[r].code = "OPENAI_ERROR"

\* C3: a request with a valid prompt never makes a second call to the image
\* service, has made exactly one by the time it is answered, and that call
\* carries trim(prompt) followed by "\n\n[variation:" tag "]" with the
\* request's own non-empty tag.
C3_OneCallTaggedPrompt ==
  \A r \in Requests :
    ValidPrompt(r) =>
      /\ Cardinality(CallsOf(r)) <= 1
      /\ res[r].count > 0 =>
           /\ Cardinality(CallsOf(r)) = 1
           /\ variationTag[r] # ""
           /\ \A k \in CallsOf(r) :
                calls[k].body.prompt =
                  Trim(reqBody[r].prompt.s)
                    \o <<"\n", "\n", "[variation:", variationTag[r], "]">>

C3_Witness ==
  \E r \in Requests :
    /\ reqBody[r].prompt = Str(<<" ", "a">>)
    /\ Done(r)
    /\ Cardinality(CallsOf(r)) = 1
    /\ \A k \in CallsOf(r) : Len(calls[k].body.prompt) = 6

\* A first result with a non-empty base64 field
HasImage(data) ==
  /\ data.hasData
  /\ Len(data.data) > 0
  /\ data.data[1].t = "string"
  /\ Len(data.data[1].s) > 0

\* C4: a success status whose first result has a non-empty base64 field is
\* answered 200 with ok:true, b64 the service's value, and fileName
\* "ai-photo-<epoch-millis>-<tag>.png" with the tag sent upstream.
C4_SuccessEnvelope ==
  \A r \in Requests :
    (ParsedSuccess(r) /\ HasImage(payload[r])) =>
      /\ res[r].count = 1
      /\ res[r].status = 200
      /\ res[r].type = "json"
      /\ res[r].ok
      /\ res[r].b64 = payload[r].data[1]
      /\ \A k \in CallsOf(r) :
           \E now \in Clock :
             res[r].fileName = <<"ai-photo-", now, "-", TagSent(k), ".png">>

C4_Witness ==
  \E r \in Requests :
    /\ ParsedSuccess(r)
    /\ HasImage(payload[r])
    /\ res[r].ok
    /\ CallsOf(r) # {}

\* C5: a success status whose parsed body has no results array, an empty one,
\* or a first element without a base64 field is answered 502 with error.code
\* NO_IMAGE, never ok:true.
C5_NoImage ==
  \A r \in Requests :
    (/\ ParsedSuccess(r)
     /\ \/ ~payload[r].hasData
        \/ Len(payload[r].data) = 0
        \/ payload[r].data[1] = JsUndefined) =>
      /\ res[r].count = 1
      /\ res[r].status = 502
      /\ res[r].type = "json"
      /\ ~res[r].ok
      /\ res[r].code = "NO_IMAGE"

C5_Witness ==
  \E r \in Requests :
    /\ ParsedSuccess(r)
    /\ payload[r].hasData
    /\ Len(payload[r].data) = 0
    /\ res[r].code = "NO_IMAGE"

\* C6: every request that does not end in success, a body express.json cannot
\* take included, is answered with a JSON envelope ok:false carrying a code, an
\* English and a Bangla message.
C6_EveryFailureIsEnvelope ==
  \A r \in Requests :
    (Done(r) /\ ~res[r].ok) =>
      /\ res[r].type = "json"
      /\ res[r].code # ""
      /\ Len(res[r].message_en) > 0
      /\ Len(res[r].message_bn) > 0

\* C7: with N valid requests in flight and every call answered with its own
\* image, each request is answered once, with success, the image of its own
\* call and its own tag in the file name; tags are pairwise distinct and no
\* answer carries another request's tag or image.
C7_NoCrossTalk ==
  /\ \A r \in Requests :
       /\ res[r].count <= 1
       /\ Done(r) =>
            /\ res[r].count = 1
            /\ res[r].ok
            /\ res[r].status = 200
            /\ Cardinality(CallsOf(r)) = 1
            /\ \A k \in CallsOf(r) :
                 /\ res[r].b64 = Image(k)
                 /\ res[r].fileName[4] = TagSent(k)
                 /\ variationTag[r] = TagSent(k)
  /\ \A r1, r2 \in Requests :
       (r1 # r2 /\ CallsOf(r1) # {} /\ CallsOf(r2) # {}) =>
         /\ variationTag[r1] # variationTag[r2]
         /\ (Done(r1) /\ Done(r2)) =>
              /\ res[r1].b64 # res[r2].b64
              /\ res[r1].fileName[4] # res[r2].fileName[4]
         /\ Done(r1) =>
              /\ res[r1].fileName[4] # variationTag[r2]
              /\ \A k \in CallsOf(r2) : res[r1].b64 # Image(k)

\* All N answered, the calls having gone out in another order than the
\* requests came in
C7_Witness ==
  /\ Len(reqBody) = NumConcurrent
  /\ \A r \in Requests : Done(r) /\ res[r].ok
  /\ \E r \in Requests : r \notin CallsOf(r)

\* The reason the claim names for the error body of request r
ExpectedReason(r) ==
  IF /\ payload[r].parses
     /\ payload[r].hasError
     /\ payload[r].message.t = "string"
     /\ Len(payload[r].message.s) > 0
  THEN payload[r].message.s
  ELSE <<response[r].status, " ", response[r].statusText>>

\* C8: after a non-success status the answer is OPENAI_ERROR whatever the
\* error body; its reason is the body's error.message when the body parses
\* and has a non-empty one, else "<status> <statusText>", and the same reason
\* is in message_en and message_bn.
C8_Reason ==
  \A r \in Requests :
    NonSuccess(r) =>
      /\ res[r].status = 500
      /\ res[r].code = "OPENAI_ERROR"
      /\ res[r].message_en = <<"Image generation failed. Reason: ">> \o ExpectedReason(r)
      /\ res[r].message_bn = <<"ইমেজ জেনারেশন ব্যর্থ হয়েছে. কারণ: ">> \o ExpectedReason(r)

C8_Witness ==
  \E r \in Requests :
    /\ NonSuccess(r)
    /\ payload[r].message = Str(<<"quota exceeded">>)
    /\ res[r].message_en[2] = "quota exceeded"
    /\ res[r].message_bn[2] = "quota exceeded"

\* The page is busy: a control is disabled or the spinner is on
Busy == btnStartDisabled \/ btnEntireDisabled \/ spinnerOn

\* C9: a generate operation that set the busy state settles in the end, and
\* with no operation left unsettled both controls are enabled and the busy
\* indicator is off.
C9_BusyEnds ==
  /\ [](ops = <<>> => ~Busy)
  /\ (ops # <<>>) ~> (ops = <<>> /\ ~Busy)

\* A non-ok envelope has just been shown and nothing is pending
C9_Witness ==
  /\ ops = <<>>
  /\ ~Busy
  /\ errorBox.display = "block"
  /\ errorBox.text = <<"Please provide a valid script (prompt).">>

\* C10: at most one generation request of the page is in flight; while one is,
\* both controls are disabled; a request is issued only by a generate click
\* with a non-blank prompt while the controls are enabled and nothing is in
\* flight.
C10_OneInFlight ==
  /\ [](Len(ops) <= 1)
  /\ [](ops # <<>> => (btnStartDisabled /\ btnEntireDisabled))
  /\ [][Len(ops') > Len(ops) =>
          /\ ~btnEntireDisabled
          /\ ~btnStartDisabled
          /\ ops = <<>>
          /\ \E i \in 1..Len(promptValue) : promptValue[i] \notin WhiteSpace
          /\ Len(ops') = 1
          /\ ops'[1].body.prompt = Str(Trim(promptValue))]_vars

\* A second request is in flight after a first one has settled
C10_Witness ==
  /\ Len(ops) = 1
  /\ btnEntireDisabled
  /\ imageWrap = <<>>
  /\ errorBox.text = <<"Error occurred.">>


====
